---- MODULE Spec2Model ----
(***************************************************************************)
(* Request routing and lifecycle of the Space-WH integration layer.        *)
(*                                                                         *)
(* The module models EngineAdapter (adapters/engine_adapter.js, kept in    *)
(* src/core/rag_system/document_processors/base.js lines 296-532): the     *)
(* activeRequests map, the request counter, the processing promise of      *)
(* every admitted request with its then/catch callbacks, the 30-minute     *)
(* eviction timer, the engine's 'request-complete' notification and the    *)
(* two halves of the asynchronous cancel handler (before and after its     *)
(* await).  Every callback of the JavaScript event loop is one action.     *)
(***************************************************************************)
EXTENDS Integers, Sequences, FiniteSets, Bags, TLC

\* ------------------------------------------------------------------ bounds

\* Number of process requests admitted under Spec (cap of requestCounter).
MaxRequests == 1
\* Largest value of the millisecond clock Date.now().
MaxTime == 1
\* Number of cancel calls that may be suspended at their await at once.
MaxCancels == 2
\* Number of process requests admitted under SpecAdmission.
MaxAdmitted == 2
\* Number of aggregate status queries that may be suspended at their await at
\* once.
MaxStatusCalls == 1
\* Longest handler list of a channel of the event bus.
MaxHandlers == 3
\* Most updates of the RAG system's index.
MaxIndexVersion == 2
\* Most handleQuery calls suspended at once.
MaxQueries == 2
\* Most handleUpdateIndex calls suspended at once.
MaxUpdates == 1
\* Highest count of terminal events the history keeps per request id.
MaxTerminalEvents == 2
\* Highest required level asked of the mode permissions.
MaxRequiredLevel == 5
\* Most ToolsAdapter.connect calls suspended at their await at once.
MaxConnecting == 1

\* ------------------------------------------------------------ input values

\* Source ids of the components calling the adapter.
Sources == {"s1", "s2"}
\* Results the engine collaborator may deliver.
Results == {"r1", "r2"}
\* JavaScript's undefined: a field that was never assigned.
Absent == "absent"
\* undefined in a timestamp field (completionTime, cancellationTime).
NoTime == -1
\* A request id string that the adapter never issued.
UnknownId == <<0, 0>>
\* No request id: the requestId of an event or observation that has none.
NoId == <<NoTime, NoTime>>
\* undefined in a count field.
NoCount == NoTime
\* Operational modes handed to handleModeChange: the adapter's default, two
\* names of the mode table in different spellings, and the empty string.
Modes == {"STANDARD", "archivist", "ENTITY", ""}

\* The modes of callers of the mode permissions: the names of the mode table,
\* two of them in another spelling, a name the table lacks, the empty string.
UserModes == {"archivist", "orchestrator", "godfather", "entity", "ENTITY",
              "Godfather", "STANDARD", ""}
\* The required levels handed to hasAccess, requireMode and protectFunction.
RequiredLevels == 0..MaxRequiredLevel

\* The tiers of the engine system.
Tiers == {"tier1", "tier2", "tier3"}
\* The context length above which a request goes to the highest tier.
ContextThreshold == 10000
\* The cache keys of the queries handed to the RAG adapter.
QueryKeys == {"q1", "q2"}

\* Channels of the event bus.
Channels == {"mode-change", "state-change"}
\* Handler functions subscribed to the event bus.
Handlers == {"h1", "h2"}
\* What a handler does when it is invoked: it returns, it throws an Error, or
\* it subscribes a handler to the channel being delivered and returns.
Behaviours == {"returns", "throws", "subscribes"}
\* OperationalModes: the known mode set.
OperationalModes == {"STANDARD", "ENHANCED", "EXPERIMENTAL", "MAINTENANCE"}

\* Mode values a caller may hand to setOperationalMode, or an integration
\* layer may hold: the known ones, a name of the mode table, the empty string.
LayerModes == OperationalModes \cup {"archivist", ""}
\* The subsystems whose mode-change hook setOperationalMode calls, in order.
Subsystems == <<"controlCenter", "engines", "ragSystem", "tools", "aiCouncil">>

VARIABLES
    engineControl,   \* "none" (null/undefined) or "engine" (the collaborator)
    isInitialized,   \* this.isInitialized
    requestCounter,  \* this.requestCounter
    now,             \* Date.now()
    activeRequests,  \* keys of the Map this.activeRequests
    requestInfo,     \* the record objects, by request id (heap; a record
                     \* deleted from the map lives on while a closure holds it)
    promise,         \* per id: state of processingPromise.then().catch()
    evictTimer,      \* per id: the setTimeout of the then-callback is pending
    cancels,         \* bag of the cancel calls suspended at
                     \* `await cancelRequest(...)`
    currentMode,     \* this.currentMode
    terminalEvents,  \* history: per request id, how many terminal events
                     \* were emitted for it so far (counted up to
                     \* MaxTerminalEvents)
    statusCalls,     \* bag of the source ids of the aggregate status queries
                     \* suspended at `await getStatus()`
    layerMode,       \* integrationLayer.currentMode
    eventBus,        \* integrationLayer.eventBus: per channel that was
                     \* subscribed to, its handlers in registration order
    systemState,     \* integrationLayer.systemState.availableTools
    registeredTools, \* ToolsAdapter.registeredTools, in insertion order
    isConnected,     \* ToolsAdapter.isConnected
    connecting,      \* ToolsAdapter.connect calls suspended at their await
    ragInitialized,  \* RAGSystemAdapter.isInitialized
    ragIndex,        \* the version of the RAG system's index
    queryCache,      \* RAGSystemAdapter.queryCache: per cache key, the index
                     \* version its cached result was computed from
    queries,         \* bag of the handleQuery calls suspended at
                     \* `await this.ragSystem.query(...)`
    updates,         \* number of handleUpdateIndex calls suspended at their
                     \* await
    indexCompleted,  \* history: the index version as of the last index
                     \* update that completed
    out              \* what the last handler returned, emitted and called

\* The integration layer and the tools adapter.
toolsVars == <<registeredTools, isConnected, connecting>>
layerVars == <<layerMode, eventBus, systemState, toolsVars>>

\* The RAG system adapter.
ragVars == <<ragInitialized, ragIndex, queryCache, queries, updates, indexCompleted>>

\* The engine adapter.
engineVars == <<engineControl, isInitialized, requestCounter, now, activeRequests,
                requestInfo, promise, evictTimer, cancels, currentMode, statusCalls,
                terminalEvents>>

vars == <<engineControl, isInitialized, requestCounter, now, activeRequests,
          requestInfo, promise, evictTimer, cancels, currentMode, statusCalls,
          terminalEvents, layerMode, eventBus, systemState, registeredTools, isConnected,
          connecting, ragInitialized, ragIndex, queryCache, queries, updates,
          indexCompleted, out>>

\* ----------------------------------------------------------------- helpers

Terminal == {"completed", "error", "cancelled"}

\* `req-${counter}-${Date.now()}`: the string is determined by, and determines,
\* the pair (counter, time).
RequestId(counter, time) == <<counter, time>>

\* ++this.requestCounter
NextCounterStuck(c) == c
NextCounter(c) == c + 1

\* The object stored by activeRequests.set(requestId, {...}).
NewRecordSettled(sourceId, time) ==
    [sourceId |-> sourceId, startTime |-> time, status |-> "completed",
     completionTime |-> time, result |-> Absent, error |-> Absent,
     cancellationTime |-> NoTime]
NewRecord(sourceId, time) ==
    [sourceId |-> sourceId, startTime |-> time, status |-> "processing",
     completionTime |-> NoTime, result |-> Absent, error |-> Absent,
     cancellationTime |-> NoTime]

\* An event handed to integrationLayer.emit(channel, payload).
Event(channel, requestId, sourceId, result, error) ==
    [channel |-> channel, requestId |-> requestId, sourceId |-> sourceId,
     result |-> result, error |-> error, mode |-> Absent]

\* The snapshot field of an observation that returns none.
NoSnapshot ==
    [requestId |-> NoId, status |-> Absent, startTime |-> NoTime,
     completionTime |-> NoTime, result |-> Absent, error |-> Absent]

\* A request handed to determineEngineTier: whether there is one at all, its
\* tier override, complexity and urgency (Absent when it has none) and the
\* length of its context (NoCount when it has none).
Request(tier, complexity, urgency, contextLength) ==
    [present |-> TRUE, tier |-> tier, complexity |-> complexity,
     urgency |-> urgency, contextLength |-> contextLength]
NoRequest ==
    [present |-> FALSE, tier |-> Absent, complexity |-> Absent,
     urgency |-> Absent, contextLength |-> NoCount]

\* The requests handed to determineEngineTier: with and without a tier
\* override (one of them no tier of the engine system), every complexity
\* and urgency, no context, an empty one, one of the threshold's length and
\* one longer; and no request at all.
Requests ==
    {Request(t, c, u, l) :
        t \in {Absent, "tier1", "tier3", "tier9"},
        c \in {Absent, "low", "medium", "high"},
        u \in {Absent, "low", "high"},
        l \in {NoCount, 0, ContextThreshold, ContextThreshold + 1}}
      \cup {NoRequest}

\* The details of an error that has none.
NoDetail ==
    [currentMode |-> Absent, currentLevel |-> NoCount, requiredLevel |-> NoCount]

\* The observation of one handler run: which handler ran (op) for which request
\* id, what it returned (ret) and the events it emitted, in order.  The other
\* fields are filled in by the handlers they belong to: the caller's sourceId
\* and adminOverride, whether engineControl.cancelRequest was called, for the
\* return of a cancel call whether its record was 'processing' when the call
\* was made and the engine's answer, for a status query its snapshot or, when
\* no id was given, the activeRequests count it reports.
\* For the integration layer: the channel of an emit, the handlers that were
\* registered on it when emit was called, the handlers invoked, in order, and
\* those of them that threw; the mode handed to setOperationalMode and the
\* subsystem hooks it called; for the tools adapter the tool asked for,
\* whether its invoke function was called, and the tools listed.
\* For the mode permissions: the caller's mode and its level, the required
\* level, whether hasAccess granted it, whether the protected function or
\* route was executed, the details of the error of a refusal, and the mode
\* getNextMode returned.  For the tier selection: the request and the tier
\* returned.  For the RAG adapter: the cache key of a query, whether it was
\* answered from the cache, and the index version its result was computed
\* from.
\* No tool definition was handed to the handler.
NoDefinition ==
    [tool |-> [id |-> Absent, category |-> Absent, hasPermissions |-> FALSE,
               permissions |-> {}],
     complete |-> FALSE]

Obs(op, requestId, ret, emitted) ==
    [op |-> op, requestId |-> requestId, ret |-> ret, emitted |-> emitted,
     sourceId |-> Absent, adminOverride |-> FALSE, engineCancel |-> FALSE,
     wasProcessing |-> FALSE, answer |-> Absent, snapshot |-> NoSnapshot,
     count |-> NoCount, channel |-> Absent, registered |-> <<>>,
     invoked |-> <<>>, threw |-> {}, mode |-> Absent, hooks |-> <<>>,
     toolId |-> Absent, toolInvoked |-> FALSE, tools |-> <<>>,
     level |-> NoCount, requiredLevel |-> NoCount, granted |-> FALSE,
     executed |-> FALSE, detail |-> NoDetail, next |-> Absent,
     request |-> NoRequest, tier |-> Absent,
     key |-> Absent, fromCache |-> FALSE, resultVersion |-> NoCount,
     definition |-> NoDefinition]

\* The events that tell callers a request has ended.
TerminalChannels ==
    {"engine-request-complete", "engine-request-error", "engine-request-cancelled"}

\* The history of terminal events after a handler emitted `emitted`: every
\* terminal event that names a request id is counted for that id.
Tally(history, emitted) ==
    LET terminal(id) == {i \in DOMAIN emitted :
                            /\ emitted[i].channel \in TerminalChannels
                            /\ emitted[i].requestId = id}
        ids == {emitted[i].requestId : i \in DOMAIN emitted} \ {NoId}
        more(n, k) == IF n + k > MaxTerminalEvents THEN MaxTerminalEvents ELSE n + k
    IN [id \in DOMAIN history \cup {id \in ids : terminal(id) # {}} |->
          more(IF id \in DOMAIN history THEN history[id] ELSE 0,
               Cardinality(terminal(id)))]

\* this.activeRequests.get(requestId) is not undefined
HasStale(requestId) == requestId \in DOMAIN requestInfo
Has(requestId) == requestId \in activeRequests

\* requestInfo.status = 'completed'; completionTime = Date.now(); result = result
MarkCompleted(rec, result, time) ==
    [rec EXCEPT !.status = "completed", !.completionTime = time, !.result = result]

\* requestInfo.status = 'error'; completionTime = Date.now(); error = error.message
MarkError(rec, error, time) ==
    [rec EXCEPT !.status = "error", !.completionTime = time, !.error = error]

\* requestInfo.status = 'cancelled'; cancellationTime = Date.now()
MarkCancelledTimeOnly(rec, time) ==
    [rec EXCEPT !.cancellationTime = time]
MarkCancelled(rec, time) ==
    [rec EXCEPT !.status = "cancelled", !.cancellationTime = time]

\* The two early returns of handleCancelRequest.
CancelCheckStaleLookup(requestId, sourceId, adminOverride) ==
    IF requestId \notin DOMAIN requestInfo THEN "notfound"
    ELSE IF requestInfo[requestId].sourceId # sourceId /\ ~adminOverride
         THEN "unauthorized"
         ELSE "proceed"
CancelCheckOwnerOnlyLogged(requestId, sourceId, adminOverride) ==
    IF ~Has(requestId) THEN "notfound" ELSE "proceed"
CancelCheck(requestId, sourceId, adminOverride) ==
    IF ~Has(requestId) THEN "notfound"
    ELSE IF requestInfo[requestId].sourceId # sourceId /\ ~adminOverride
         THEN "unauthorized"
         ELSE "proceed"

\* The snapshot built by handleStatusRequest for a request id.
StatusSnapshot(requestId) ==
    LET r == requestInfo[requestId] IN
    [requestId |-> requestId, status |-> r.status, startTime |-> r.startTime,
     completionTime |-> r.completionTime,
     result |-> IF r.status = "completed" THEN r.result ELSE Absent,
     error |-> r.error]

\* Array.from(activeRequests.values()).filter(req => req.status ===
\* 'processing').length, over the map with key set `keys` and records `recs`.
CountTracked(keys, recs) == Cardinality(keys)
CountProcessing(keys, recs) ==
    Cardinality({id \in keys : recs[id].status = "processing"})

\* config.modes: the level of every mode of the mode table.
configModes ==
    [archivist |-> [level |-> 1], orchestrator |-> [level |-> 2],
     godfather |-> [level |-> 3], entity |-> [level |-> 4]]

\* String.prototype.toLowerCase on the mode names in use.
toLowerCase(str) ==
    CASE str = "STANDARD" -> "standard"
      [] str = "ENHANCED" -> "enhanced"
      [] str = "EXPERIMENTAL" -> "experimental"
      [] str = "MAINTENANCE" -> "maintenance"
      [] str = "ENTITY" -> "entity"
      [] str = "Godfather" -> "godfather"
      [] OTHER -> str

\* getModeLevel(mode): 0 for an empty mode and for a name the table lacks.
getModeLevel(mode) ==
    IF mode = "" THEN 0
    ELSE IF toLowerCase(mode) \in DOMAIN configModes
         THEN configModes[toLowerCase(mode)].level
         ELSE 0

\* hasAccess(userMode, requiredLevel)
hasAccessAbove(userMode, requiredLevel) == getModeLevel(userMode) > requiredLevel
hasAccess(userMode, requiredLevel) == getModeLevel(userMode) >= requiredLevel

\* MODE_LEVELS.ARCHIVIST, the lowest level of the mode table.
MODE_LEVELS_ARCHIVIST == configModes.archivist.level
\* MODE_LEVELS.ENTITY
MODE_LEVELS_ENTITY == configModes.entity.level

\* The handlers emit iterates over: this.eventBus.get(eventName) when
\* this.eventBus.has(eventName), none otherwise.
SubscribersOfAll(bus, channel) ==
    IF DOMAIN bus = {} THEN <<>> ELSE bus[CHOOSE c \in DOMAIN bus : TRUE]
Subscribers(bus, channel) ==
    IF channel \in DOMAIN bus THEN bus[channel] ELSE <<>>

\* on(eventName, handler): the list is created when missing, the handler is
\* pushed at its end.
Push(bus, channel, handler) ==
    [c \in DOMAIN bus \cup {channel} |->
        IF c = channel THEN Append(Subscribers(bus, channel), handler) ELSE bus[c]]

\* The handler taken at step i of `for (const handler of list)`.
NextHandlerSecondFirst(list, i) ==
    IF i = 1 /\ Len(list) >= 2 THEN list[2] ELSE IF i = 2 THEN list[1] ELSE list[i]
NextHandler(list, i) == list[i]

\* try { handler(data) } catch (error) { logger.error(...) }: the failure of
\* a handler stays inside emit.
HandlerFailureEscapes(handler) == FALSE
HandlerFailureCaught(handler) == TRUE

\* The loop of emit from step i on.  The array iterator reads the live list:
\* a handler pushed while the loop runs is reached by it.  d is what was
\* delivered so far: the bus, the handlers invoked, those that threw, and
\* whether a failure left the loop.
RECURSIVE Deliver(_, _, _, _, _)
Deliver(channel, i, behaviour, late, d) ==
    IF d.escaped \/ i > Len(Subscribers(d.bus, channel)) THEN d
    ELSE LET h == NextHandler(Subscribers(d.bus, channel), i) IN
         Deliver(channel, i + 1, behaviour, late,
                 [bus |-> IF behaviour[h] = "subscribes"
                          THEN Push(d.bus, channel, late) ELSE d.bus,
                  invoked |-> Append(d.invoked, h),
                  threw |-> IF behaviour[h] = "throws"
                            THEN d.threw \cup {h} ELSE d.threw,
                  escaped |-> behaviour[h] = "throws" /\ ~HandlerFailureCaught(h)])

\* emit(eventName, data) on bus, with the handlers behaving as `behaviour`.
Delivery(bus, channel, behaviour, late) ==
    Deliver(channel, 1, behaviour, late,
            [bus |-> bus, invoked |-> <<>>, threw |-> {}, escaped |-> FALSE])

\* Object.values(OperationalModes).includes(mode)
IsAnyMode(mode) == mode \in LayerModes
IsKnownMode(mode) == mode \in OperationalModes

\* Whether the adapter class of a subsystem has a handleModeChange method:
\* EngineAdapter and ToolsAdapter have one, ControlCenterAdapter and
\* RAGSystemAdapter have none; the AI council's adapter is taken to have one.
AICouncilHasModeHook == TRUE
HasModeHook(subsystem) ==
    \/ subsystem \in {"engines", "tools"}
    \/ subsystem = "aiCouncil" /\ AICouncilHasModeHook

\* The hooks setOperationalMode gets to call: calling the hook of the first
\* subsystem that has none throws a TypeError, which ends the call.
HooksReached ==
    LET missing == {i \in DOMAIN Subsystems : ~HasModeHook(Subsystems[i])}
        first == IF missing = {} THEN Len(Subsystems) + 1
                 ELSE CHOOSE i \in missing : \A j \in missing : i <= j
    IN SubSeq(Subsystems, 1, first - 1)

\* ToolsAdapter.configureModePermissions: the categories allowed in a mode.
modePermissions ==
    [STANDARD |-> {"utility", "information", "communication", "basic-ai"},
     ENHANCED |-> {"utility", "information", "communication", "basic-ai",
                   "advanced-ai", "system-access", "data-analysis"},
     EXPERIMENTAL |-> {"utility", "information", "communication", "basic-ai",
                       "advanced-ai", "system-access", "data-analysis",
                       "experimental", "administrator"},
     MAINTENANCE |-> {"utility", "system-access", "diagnostics", "administrator"}]

\* this.modePermissions.get(mode) || []
AllowedCategoriesDefaultStandard(mode) ==
    IF mode \in DOMAIN modePermissions THEN modePermissions[mode]
    ELSE modePermissions["STANDARD"]
AllowedCategories(mode) ==
    IF mode \in DOMAIN modePermissions THEN modePermissions[mode] ELSE {}

\* The tools of `tools`, in order, whose category is allowed in mode: the
\* list built by ToolsAdapter.handleModeChange and getTools.
RECURSIVE AvailableTools(_, _)
AvailableTools(tools, mode) ==
    IF tools = <<>> THEN <<>>
    ELSE IF Head(tools).category \in AllowedCategories(mode)
         THEN <<Head(tools).id>> \o AvailableTools(Tail(tools), mode)
         ELSE AvailableTools(Tail(tools), mode)

\* A tool definition: its id, its category and its permissions array, which
\* a definition handed to registerTool may lack.
Tool(id, category, hasPermissions, permissions) ==
    [id |-> id, category |-> category, hasPermissions |-> hasPermissions,
     permissions |-> permissions]

\* The tools discoverTools registers.
exampleTools ==
    <<Tool("file-manager", "utility", TRUE, {"read", "write"}),
      Tool("data-analyzer", "data-analysis", TRUE, {"read"}),
      Tool("system-monitor", "system-access", TRUE, {"read"})>>

\* The definitions handed to registerTool: a new id, a discovered one or
\* none, a category no discovered tool has or none, with or without
\* permissions.
CustomTools ==
    {Tool(id, category, hasPermissions, IF hasPermissions THEN {"read"} ELSE {}) :
        id \in {"probe", "file-manager", ""},
        category \in {"diagnostics", ""},
        hasPermissions \in BOOLEAN}

\* The tool ids a request names.
ToolIds == {"file-manager", "system-monitor", "probe", "no-such-tool"}

\* this.registeredTools.has(id), .get(id), .set(tool.id, tool): a Map keeps
\* the position of a key that is set again.
HasTool(tools, id) == \E i \in DOMAIN tools : tools[i].id = id
GetTool(tools, id) == tools[CHOOSE i \in DOMAIN tools : tools[i].id = id]
SetTool(tools, tool) ==
    IF HasTool(tools, tool.id)
    THEN [i \in DOMAIN tools |-> IF tools[i].id = tool.id THEN tool ELSE tools[i]]
    ELSE Append(tools, tool)

\* exampleTools.forEach(tool => this.registeredTools.set(tool.id, tool))
discoverTools(tools) ==
    SetTool(SetTool(SetTool(tools, exampleTools[1]), exampleTools[2]), exampleTools[3])

\* allowedCategories.includes(tool.category) in handleToolRequest
ToolAllowedAlways(tool, mode) == TRUE
ToolAllowed(tool, mode) == tool.category \in AllowedCategories(mode)

\* getTools({category, permissions}): the tools allowed in mode that pass the
\* filters given (category "" and permissions {} are filters not given).
\* Reading the permissions of a tool registered without any throws, which
\* getTools catches and answers with success false.
getTools(tools, mode, category, permissions) ==
    LET reaches(t) == /\ t.category \in AllowedCategories(mode)
                      /\ category = "" \/ t.category = category
        listed == SelectSeq(tools, LAMBDA t : reaches(t) /\ permissions \subseteq t.permissions)
    IN IF permissions # {} /\ \E i \in DOMAIN tools :
                                reaches(tools[i]) /\ ~tools[i].hasPermissions
       THEN [success |-> FALSE, data |-> <<>>]
       ELSE [success |-> TRUE, data |-> [i \in DOMAIN listed |-> listed[i].id]]

\* --------------------------------------------------------------- the state

InitButMode ==
    /\ engineControl = "none"
    /\ isInitialized = FALSE
    /\ requestCounter = 0
    /\ now = 0
    /\ activeRequests = {}
    /\ requestInfo = <<>>
    /\ promise = <<>>
    /\ evictTimer = <<>>
    /\ cancels = EmptyBag
    /\ currentMode = "STANDARD"
    /\ statusCalls = EmptyBag
    /\ terminalEvents = <<>>
    /\ eventBus = <<>>
    /\ systemState = [defined |-> FALSE, availableTools |-> <<>>]
    /\ registeredTools = <<>>
    /\ isConnected = FALSE
    /\ connecting = 0
    /\ ragInitialized = FALSE
    /\ ragIndex = 0
    /\ queryCache = <<>>
    /\ queries = EmptyBag
    /\ updates = 0
    /\ indexCompleted = 0
    /\ out = Obs("init", NoId, Absent, <<>>)

\* The state after new IntegrationLayer(): the mode is STANDARD.
Init ==
    /\ layerMode = "STANDARD"
    /\ InitButMode

\* The state after new ToolsAdapter(integrationLayer): the adapter keeps the
\* layer it is handed and reads its currentMode field, whatever that holds.
InitTools ==
    /\ layerMode \in LayerModes
    /\ InitButMode

\* Date.now() advances.
Tick ==
    /\ now < MaxTime
    /\ now' = now + 1
    /\ out' = Obs("tick", NoId, Absent, <<>>)
    /\ terminalEvents' = Tally(terminalEvents, out'.emitted)
    /\ UNCHANGED <<ragVars, engineControl, isInitialized, requestCounter, activeRequests,
                   requestInfo, promise, evictTimer, cancels,
                   currentMode, statusCalls, layerVars>>

\* connect(engineControl): ec is the collaborator passed in, "none" when the
\* caller passes nothing (as IntegrationLayer.start does): reading its `on`
\* throws.  A collaborator without on() is one that never emits
\* 'request-complete'.
Connect(ec) ==
    /\ ~isInitialized
    /\ engineControl' = ec
    /\ isInitialized' = (ec # "none")
    /\ out' = IF ec = "none"
              THEN Obs("connect", NoId, "throws",
                       <<Event("engine-error", NoId, Absent, Absent, "TypeError")>>)
              ELSE Obs("connect", NoId, "true", <<>>)
    /\ terminalEvents' = Tally(terminalEvents, out'.emitted)
    /\ UNCHANGED <<ragVars, requestCounter, now, activeRequests, requestInfo, promise,
                   evictTimer, cancels, currentMode, statusCalls, layerVars>>

\* handleModeChange(mode), were it to revoke what is in flight: every
\* 'processing' record is marked cancelled.
HandleModeChangeRevoking(mode) ==
    /\ currentMode' = mode
    /\ requestInfo' = [id \in DOMAIN requestInfo |->
                         IF requestInfo[id].status = "processing"
                         THEN [requestInfo[id] EXCEPT !.status = "cancelled"]
                         ELSE requestInfo[id]]
    /\ out' = Obs("mode-change", NoId, Absent,
                  <<[Event("engine-mode-change", NoId, Absent, Absent, Absent)
                       EXCEPT !.mode = mode]>>)
    /\ terminalEvents' = Tally(terminalEvents, out'.emitted)
    /\ UNCHANGED <<ragVars, engineControl, isInitialized, requestCounter, now, activeRequests,
                   promise, evictTimer, cancels, statusCalls, layerVars>>

\* handleModeChange(mode)
HandleModeChange(mode) ==
    /\ currentMode' = mode
    /\ out' = Obs("mode-change", NoId, Absent,
                  <<[Event("engine-mode-change", NoId, Absent, Absent, Absent)
                       EXCEPT !.mode = mode]>>)
    /\ terminalEvents' = Tally(terminalEvents, out'.emitted)
    /\ UNCHANGED <<ragVars, engineControl, isInitialized, requestCounter, now, activeRequests,
                   requestInfo, promise, evictTimer, cancels, statusCalls,
                   layerVars>>

\* handleProcessRequest(sourceId, request, options), up to its return.
\* payload: "valid", or "malformed" (request is null/undefined, so that
\* determineEngineTier throws).  dispatch: the engine's processRequest returns
\* a promise ("promise") or throws synchronously ("throws").
HandleProcessRequest(sourceId, payload, dispatch) ==
    /\ LET counter == NextCounter(requestCounter)
           requestId == RequestId(counter, now)
           admitted == /\ payload = "valid"
                       /\ engineControl # "none"
                       /\ dispatch = "promise"
       IN
       /\ requestCounter' = counter
       /\ activeRequests' = activeRequests \cup {requestId}
       /\ requestInfo' = [x \in DOMAIN requestInfo \cup {requestId} |->
                             IF x = requestId THEN NewRecord(sourceId, now)
                             ELSE requestInfo[x]]
       /\ promise' = [x \in DOMAIN promise \cup {requestId} |->
                         IF x = requestId
                         THEN (IF admitted THEN "pending" ELSE "none")
                         ELSE promise[x]]
       /\ evictTimer' = [x \in DOMAIN evictTimer \cup {requestId} |->
                            IF x = requestId THEN FALSE ELSE evictTimer[x]]
       /\ out' = [(IF admitted
                   THEN Obs("process", requestId, "success", <<>>)
                   ELSE Obs("process", requestId, "error",
                            <<Event("engine-request-error", NoId, sourceId, Absent,
                                    "dispatchError")>>))
                  EXCEPT !.sourceId = sourceId]
    /\ terminalEvents' = Tally(terminalEvents, out'.emitted)
    /\ UNCHANGED <<ragVars, engineControl, isInitialized, now, cancels, currentMode, statusCalls, layerVars>>

\* The engine resolves processingPromise with `result`: the then-callback runs.
\* onComplete: options.onComplete is absent or returns ("returns"), or it throws
\* (also: options is undefined), which rejects the derived promise before the
\* emit and the setTimeout are reached.
PromiseResolve(requestId, result, onComplete) ==
    /\ requestId \in DOMAIN promise
    /\ promise[requestId] = "pending"
    /\ requestInfo' = IF Has(requestId)
                      THEN [requestInfo EXCEPT ![requestId] = MarkCompleted(@, result, now)]
                      ELSE requestInfo
    /\ IF Has(requestId) /\ onComplete = "throws"
       THEN /\ promise' = [promise EXCEPT ![requestId] = "thenThrew"]
            /\ evictTimer' = evictTimer
            /\ out' = Obs("resolve", requestId, "throws", <<>>)
       ELSE /\ promise' = [promise EXCEPT ![requestId] = "done"]
            /\ evictTimer' = [evictTimer EXCEPT ![requestId] = TRUE]
            /\ out' = Obs("resolve", requestId, "returns",
                          IF Has(requestId)
                          THEN <<Event("engine-request-complete", requestId,
                                       requestInfo[requestId].sourceId, result, Absent)>>
                          ELSE <<>>)
    /\ terminalEvents' = Tally(terminalEvents, out'.emitted)
    /\ UNCHANGED <<ragVars, engineControl, isInitialized, requestCounter, now, activeRequests,
                   cancels, currentMode, statusCalls, layerVars>>

\* The catch-callback of handleProcessRequest, run with `error`.
CatchCallback(requestId, error) ==
    /\ requestInfo' = IF Has(requestId)
                      THEN [requestInfo EXCEPT ![requestId] = MarkError(@, error, now)]
                      ELSE requestInfo
    /\ promise' = [promise EXCEPT ![requestId] = "done"]
    /\ out' = Obs("catch", requestId, "returns",
                  <<Event("engine-request-error", requestId,
                          requestInfo[requestId].sourceId, Absent, error)>>)
    /\ terminalEvents' = Tally(terminalEvents, out'.emitted)
    /\ UNCHANGED <<ragVars, engineControl, isInitialized, requestCounter, now, activeRequests,
                   evictTimer, cancels, currentMode, statusCalls, layerVars>>

\* The engine rejects processingPromise: the catch-callback runs.
PromiseReject(requestId) ==
    /\ requestId \in DOMAIN promise
    /\ promise[requestId] = "pending"
    /\ CatchCallback(requestId, "engineError")

\* The then-callback threw: the catch-callback runs with the callback's error.
ThenFailureCaught(requestId) ==
    /\ requestId \in DOMAIN promise
    /\ promise[requestId] = "thenThrew"
    /\ CatchCallback(requestId, "callbackError")

\* The timer set by the then-callback fires: activeRequests.delete(requestId).
EvictTimerFires(requestId) ==
    /\ requestId \in DOMAIN evictTimer
    /\ evictTimer[requestId]
    /\ evictTimer' = [evictTimer EXCEPT ![requestId] = FALSE]
    /\ activeRequests' = activeRequests \ {requestId}
    /\ out' = Obs("evict", requestId, Absent, <<>>)
    /\ terminalEvents' = Tally(terminalEvents, out'.emitted)
    /\ UNCHANGED <<ragVars, engineControl, isInitialized, requestCounter, now, requestInfo,
                   promise, cancels, currentMode, statusCalls, layerVars>>

\* The engine emits 'request-complete' (requestId, result): handleRequestComplete,
\* subscribed by connect().  callback: this.options.onRequestComplete is absent
\* or returns, or throws (the emit is then not reached).
HandleRequestComplete(requestId, result, callback) ==
    /\ isInitialized
    /\ requestInfo' = IF Has(requestId)
                      THEN [requestInfo EXCEPT ![requestId] = MarkCompleted(@, result, now)]
                      ELSE requestInfo
    /\ out' = IF ~Has(requestId)
              THEN Obs("request-complete", requestId, "returns", <<>>)
              ELSE IF callback = "throws"
              THEN Obs("request-complete", requestId, "throws", <<>>)
              ELSE Obs("request-complete", requestId, "returns",
                       <<Event("engine-request-complete", requestId,
                               requestInfo[requestId].sourceId, result, Absent)>>)
    /\ terminalEvents' = Tally(terminalEvents, out'.emitted)
    /\ UNCHANGED <<ragVars, engineControl, isInitialized, requestCounter, now, activeRequests,
                   promise, evictTimer, cancels, currentMode, statusCalls,
                   layerVars>>

\* The request ids a caller or the engine may name: every id generated so far
\* and one that was never issued.
KnownIds == DOMAIN requestInfo \cup {UnknownId}

\* A cancel call suspended at its await: the captured requestId and sourceId,
\* and whether the record was 'processing' when the call was made.
CancelCall(requestId, sourceId) ==
    [requestId |-> requestId, sourceId |-> sourceId,
     wasProcessing |-> requestInfo[requestId].status = "processing"]

\* handleCancelRequest(sourceId, {requestId}, options) up to its first return
\* or to its await.  The call that passes both checks invokes
\* engineControl.cancelRequest(requestId) and is suspended until the engine
\* answers; with no engine connected the call throws into the catch block.
HandleCancelRequest(sourceId, requestId, adminOverride) ==
    LET check == CancelCheck(requestId, sourceId, adminOverride)
        obs(ret, emitted, engineCancel) ==
            [Obs("cancel", requestId, ret, emitted)
               EXCEPT !.sourceId = sourceId, !.adminOverride = adminOverride,
                      !.engineCancel = engineCancel]
    IN
    /\ (check = "proceed" /\ engineControl # "none")
          => BagCardinality(cancels) < MaxCancels
    /\ IF check # "proceed"
       THEN /\ out' = obs(check, <<>>, FALSE)
            /\ cancels' = cancels
       ELSE IF engineControl = "none"
       THEN /\ out' = obs("error",
                          <<Event("engine-request-error", NoId, sourceId, Absent,
                                  "TypeError")>>,
                          FALSE)
            /\ cancels' = cancels
       ELSE /\ out' = obs("await", <<>>, TRUE)
            /\ cancels' = cancels (+) SetToBag({CancelCall(requestId, sourceId)})
    /\ terminalEvents' = Tally(terminalEvents, out'.emitted)
    /\ UNCHANGED <<ragVars, engineControl, isInitialized, requestCounter, now, activeRequests,
                   requestInfo, promise, evictTimer, currentMode, statusCalls,
                   layerVars>>

\* The engine answers the suspended cancel call c: handleCancelRequest from
\* its await to its return.  answer: {success: true} ("success"),
\* {success: false} ("failure"), or the engine call throws/rejects ("throws").
\* requestInfo is the object captured before the await.
CancelReturn(c, answer) ==
    LET obs(ret, emitted) ==
            [Obs("cancel-return", c.requestId, ret, emitted)
               EXCEPT !.sourceId = c.sourceId, !.wasProcessing = c.wasProcessing,
                      !.answer = answer]
    IN
    /\ BagIn(c, cancels)
    /\ requestInfo' = IF answer = "success"
                      THEN [requestInfo EXCEPT ![c.requestId] = MarkCancelled(@, now)]
                      ELSE requestInfo
    /\ out' = CASE answer = "success" ->
                     obs("success",
                         <<Event("engine-request-cancelled", c.requestId, c.sourceId,
                                 Absent, Absent)>>)
                [] answer = "failure" -> obs("failure", <<>>)
                [] OTHER ->
                     obs("error",
                         <<Event("engine-request-error", NoId, c.sourceId, Absent,
                                 "engineError")>>)
    /\ cancels' = cancels (-) SetToBag({c})
    /\ terminalEvents' = Tally(terminalEvents, out'.emitted)
    /\ UNCHANGED <<ragVars, engineControl, isInitialized, requestCounter, now, activeRequests,
                   promise, evictTimer, currentMode, statusCalls, layerVars>>

\* handleStatusRequest(sourceId, {requestId}, options) with a request id.
HandleStatusRequest(sourceId, requestId) ==
    /\ out' = IF ~Has(requestId)
              THEN Obs("status", requestId, "notfound", <<>>)
              ELSE [Obs("status", requestId, "success", <<>>)
                      EXCEPT !.snapshot = StatusSnapshot(requestId)]
    /\ terminalEvents' = Tally(terminalEvents, out'.emitted)
    /\ UNCHANGED <<ragVars, engineControl, isInitialized, requestCounter, now, activeRequests,
                   requestInfo, promise, evictTimer, cancels,
                   currentMode, statusCalls, layerVars>>

\* handleStatusRequest(sourceId, {}, options), without a request id, up to its
\* await: engineControl.getStatus() is called and the query is suspended until
\* the engine answers; with no engine connected the call throws into the
\* catch block.
HandleStatusAll(sourceId) ==
    /\ engineControl # "none" => BagCardinality(statusCalls) < MaxStatusCalls
    /\ IF engineControl = "none"
       THEN /\ out' = [Obs("status-all", NoId, "error",
                           <<Event("engine-request-error", NoId, sourceId, Absent,
                                   "TypeError")>>)
                         EXCEPT !.sourceId = sourceId]
            /\ statusCalls' = statusCalls
       ELSE /\ out' = [Obs("status-all", NoId, "await", <<>>)
                         EXCEPT !.sourceId = sourceId]
            /\ statusCalls' = statusCalls (+) SetToBag({sourceId})
    /\ terminalEvents' = Tally(terminalEvents, out'.emitted)
    /\ UNCHANGED <<ragVars, engineControl, isInitialized, requestCounter, now, activeRequests,
                   requestInfo, promise, evictTimer, cancels, currentMode,
                   layerVars>>

\* The engine answers the suspended aggregate status query of sourceId:
\* handleStatusRequest from its await to its return.  answer: a status object
\* ("status"), or getStatus throws, rejects or returns no object ("throws").
\* The 'processing' records are counted when the query resumes.
StatusAllReturn(sourceId, answer) ==
    /\ BagIn(sourceId, statusCalls)
    /\ statusCalls' = statusCalls (-) SetToBag({sourceId})
    /\ out' = IF answer = "status"
              THEN [Obs("status-all-return", NoId, "success", <<>>)
                      EXCEPT !.sourceId = sourceId, !.answer = answer,
                             !.count = CountProcessing(activeRequests, requestInfo)]
              ELSE [Obs("status-all-return", NoId, "error",
                        <<Event("engine-request-error", NoId, sourceId, Absent,
                                "engineError")>>)
                      EXCEPT !.sourceId = sourceId, !.answer = answer]
    /\ terminalEvents' = Tally(terminalEvents, out'.emitted)
    /\ UNCHANGED <<ragVars, engineControl, isInitialized, requestCounter, now, activeRequests,
                   requestInfo, promise, evictTimer, cancels, currentMode,
                   layerVars>>

\* IntegrationLayer.on(eventName, handler)
On(channel, handler) ==
    /\ Len(Subscribers(eventBus, channel)) < MaxHandlers
    /\ eventBus' = Push(eventBus, channel, handler)
    /\ out' = [Obs("on", NoId, "returns", <<>>) EXCEPT !.channel = channel]
    /\ UNCHANGED <<ragVars, engineVars, layerMode, systemState, toolsVars>>

\* IntegrationLayer.emit(eventName, data).  behaviour says what each handler
\* does when invoked; a subscribing handler subscribes `late` to the channel.
\* Left out: a handler that subscribes a subscribing handler (the loop of emit
\* then never ends), and deliveries that grow a list beyond MaxHandlers.
Emit(channel, behaviour, late) ==
    LET d == Delivery(eventBus, channel, behaviour, late) IN
    /\ behaviour[late] # "subscribes"
    /\ Len(Subscribers(eventBus, channel))
          + Cardinality({i \in DOMAIN Subscribers(eventBus, channel) :
                           behaviour[Subscribers(eventBus, channel)[i]] = "subscribes"})
          <= MaxHandlers
    /\ eventBus' = d.bus
    /\ out' = [Obs("emit", NoId, IF d.escaped THEN "throws" ELSE "returns", <<>>)
                 EXCEPT !.channel = channel,
                        !.registered = Subscribers(eventBus, channel),
                        !.invoked = d.invoked,
                        !.threw = d.threw]
    /\ UNCHANGED <<ragVars, engineVars, layerMode, systemState, toolsVars>>

\* IntegrationLayer.setOperationalMode(mode).  An unknown mode throws before
\* anything is written.  A known mode is stored, 'mode-change' is emitted to
\* the handlers of the bus (behaving as `behaviour`), and the hooks of the
\* subsystems are called in order: EngineAdapter.handleModeChange stores the
\* mode and emits, ToolsAdapter.handleModeChange stores the tools available in
\* the mode in the system state and emits.  The call throws at the first
\* subsystem without a hook.
SetOperationalMode(mode, behaviour, late) ==
    LET d == Delivery(eventBus, "mode-change", behaviour, late)
        reached == {HooksReached[i] : i \in DOMAIN HooksReached}
        obs(ret, emitted) ==
            [Obs("setOperationalMode", NoId, ret, emitted) EXCEPT !.mode = mode]
        event(channel) ==
            [Event(channel, NoId, Absent, Absent, Absent) EXCEPT !.mode = mode]
    IN
    IF ~IsKnownMode(mode)
    THEN /\ out' = obs("throws", <<>>)
         /\ UNCHANGED <<ragVars, engineVars, layerVars>>
    ELSE /\ behaviour[late] # "subscribes"
         /\ Len(Subscribers(d.bus, "mode-change")) <= MaxHandlers
         /\ layerMode' = mode
         /\ eventBus' = d.bus
         /\ currentMode' = IF "engines" \in reached THEN mode ELSE currentMode
         /\ systemState' = IF "tools" \in reached
                           THEN [defined |-> TRUE,
                                 availableTools |-> AvailableTools(registeredTools, mode)]
                           ELSE systemState
         /\ out' = [obs(IF Len(HooksReached) = Len(Subsystems)
                        THEN "returns" ELSE "throws",
                        <<event("mode-change")>>
                           \o (IF "engines" \in reached
                               THEN <<event("engine-mode-change")>> ELSE <<>>)
                           \o (IF "tools" \in reached
                               THEN <<event("state-change")>> ELSE <<>>))
                      EXCEPT !.channel = "mode-change",
                             !.registered = Subscribers(eventBus, "mode-change"),
                             !.invoked = d.invoked,
                             !.threw = d.threw,
                             !.hooks = HooksReached]
         /\ terminalEvents' = Tally(terminalEvents, out'.emitted)
         /\ UNCHANGED <<ragVars, engineControl, isInitialized, requestCounter, now,
                        activeRequests, requestInfo, promise, evictTimer, cancels,
                        statusCalls, toolsVars>>

Next ==
    \/ Tick
    \/ \E ec \in {"none", "engine"} : Connect(ec)
    \/ /\ requestCounter < MaxRequests
       /\ \E s \in Sources, p \in {"valid", "malformed"}, d \in {"promise", "throws"} :
             HandleProcessRequest(s, p, d)
    \/ \E id \in DOMAIN promise, r \in Results, cb \in {"returns", "throws"} :
          PromiseResolve(id, r, cb)
    \/ \E id \in DOMAIN promise : PromiseReject(id)
    \/ \E id \in DOMAIN promise : ThenFailureCaught(id)
    \/ \E id \in DOMAIN evictTimer : EvictTimerFires(id)
    \/ \E id \in KnownIds, r \in Results, cb \in {"returns", "throws"} :
          HandleRequestComplete(id, r, cb)
    \/ \E s \in Sources, id \in KnownIds, admin \in BOOLEAN :
          HandleCancelRequest(s, id, admin)
    \/ \E c \in BagToSet(cancels), a \in {"success", "failure", "throws"} :
          CancelReturn(c, a)
    \/ \E s \in Sources, id \in KnownIds : HandleStatusRequest(s, id)
    \/ \E s \in Sources : HandleStatusAll(s)
    \/ \E s \in BagToSet(statusCalls), a \in {"status", "throws"} :
          StatusAllReturn(s, a)

Spec == Init /\ [][Next]_vars

\* Admission on its own, with more requests than Spec admits: process
\* requests from callers whose onComplete does not throw, their settlement by
\* the promise, eviction and status queries.
NextAdmission ==
    \/ Tick
    \/ \E ec \in {"none", "engine"} : Connect(ec)
    \/ /\ requestCounter < MaxAdmitted
       /\ \E s \in Sources, p \in {"valid", "malformed"}, d \in {"promise", "throws"} :
             HandleProcessRequest(s, p, d)
    \/ \E id \in DOMAIN promise, r \in Results : PromiseResolve(id, r, "returns")
    \/ \E id \in DOMAIN promise : PromiseReject(id)
    \/ \E id \in DOMAIN evictTimer : EvictTimerFires(id)
    \/ \E s \in Sources, id \in KnownIds : HandleStatusRequest(s, id)

SpecAdmission == Init /\ [][NextAdmission]_vars

\* Admission under mode changes, at one reading of the clock: process
\* requests, their settlement by the promise, eviction, the mode-change hook
\* of the engine adapter, and setOperationalMode (nothing is subscribed to
\* the bus).
NextMode ==
    \/ \E ec \in {"none", "engine"} : Connect(ec)
    \/ /\ requestCounter < MaxAdmitted
       /\ \E s \in Sources, p \in {"valid", "malformed"}, d \in {"promise", "throws"} :
             HandleProcessRequest(s, p, d)
    \/ \E id \in DOMAIN promise, r \in Results : PromiseResolve(id, r, "returns")
    \/ \E id \in DOMAIN promise : PromiseReject(id)
    \/ \E id \in DOMAIN evictTimer : EvictTimerFires(id)
    \/ \E mode \in Modes : HandleModeChange(mode)
    \/ \E mode \in LayerModes :
          SetOperationalMode(mode, [h \in Handlers |-> "returns"], "h1")

SpecMode == Init /\ [][NextMode]_vars

\* Aggregate status queries among admissions, settlements and evictions, at
\* one reading of the clock: process requests, their settlement by the
\* promise, eviction, and the two halves of handleStatusRequest without a
\* request id.
NextStatus ==
    \/ \E ec \in {"none", "engine"} : Connect(ec)
    \/ /\ requestCounter < MaxAdmitted
       /\ \E s \in Sources, p \in {"valid", "malformed"}, d \in {"promise", "throws"} :
             HandleProcessRequest(s, p, d)
    \/ \E id \in DOMAIN promise, r \in Results : PromiseResolve(id, r, "returns")
    \/ \E id \in DOMAIN promise : PromiseReject(id)
    \/ \E id \in DOMAIN evictTimer : EvictTimerFires(id)
    \/ \E s \in Sources : HandleStatusAll(s)
    \/ \E s \in BagToSet(statusCalls), a \in {"status", "throws"} :
          StatusAllReturn(s, a)

SpecStatus == Init /\ [][NextStatus]_vars

\* The event bus on its own: subscriptions and emissions.
\* ToolsAdapter.connect() up to its await: a connected adapter returns true;
\* otherwise discoverTools registers the example tools and the call is
\* suspended.
ToolsConnect ==
    /\ out' = Obs("tools-connect", NoId, IF isConnected THEN "returns" ELSE Absent, <<>>)
    /\ IF isConnected
       THEN UNCHANGED toolsVars
       ELSE /\ connecting < MaxConnecting
            /\ Len(Subscribers(eventBus, "tool-requested")) + connecting < MaxHandlers
            /\ registeredTools' = discoverTools(registeredTools)
            /\ connecting' = connecting + 1
            /\ UNCHANGED isConnected
    /\ UNCHANGED <<ragVars, engineVars, layerMode, eventBus, systemState>>

\* ToolsAdapter.connect() from its await on: handleToolRequest is subscribed
\* to 'tool-requested' and the adapter is connected.
ToolsConnectResume ==
    /\ connecting > 0
    /\ connecting' = connecting - 1
    /\ eventBus' = Push(eventBus, "tool-requested", "handleToolRequest")
    /\ isConnected' = TRUE
    /\ out' = Obs("tools-connected", NoId, "returns", <<>>)
    /\ UNCHANGED <<ragVars, engineVars, layerMode, systemState, registeredTools>>

\* ToolsAdapter.disconnect(): a connected adapter clears its registry (the
\* example tools have no cleanup to await); the subscription stays.
ToolsDisconnect ==
    /\ out' = Obs("tools-disconnect", NoId, "returns", <<>>)
    /\ IF isConnected
       THEN /\ registeredTools' = <<>>
            /\ isConnected' = FALSE
            /\ UNCHANGED connecting
       ELSE UNCHANGED toolsVars
    /\ UNCHANGED <<ragVars, engineVars, layerMode, eventBus, systemState>>

\* registerTool's test without the check for an id that is already registered.
ToolAcceptedOverwriting(tools, tool, complete) ==
    /\ tool.id # ""
    /\ tool.category # ""
    /\ complete

\* registerTool reaches registeredTools.set: the definition has an id, a name,
\* a category and an invoke function (complete stands for name and invoke),
\* and no tool is registered under the id.
ToolAccepted(tools, tool, complete) ==
    /\ tool.id # ""
    /\ tool.category # ""
    /\ complete
    /\ ~HasTool(tools, tool.id)

\* ToolsAdapter.registerTool({tool}): complete says whether the definition
\* has a name and an invoke function. Either throw is caught and answered
\* with success: false.
RegisterTool(tool, complete) ==
    LET accepted == ToolAccepted(registeredTools, tool, complete) IN
    /\ registeredTools' = IF accepted THEN SetTool(registeredTools, tool)
                                     ELSE registeredTools
    /\ out' = [Obs("registerTool", NoId, "returns", <<>>) EXCEPT
                  !.toolId = tool.id,
                  !.definition = [tool |-> tool, complete |-> complete],
                  !.answer = IF accepted THEN "success" ELSE "failure"]
    /\ UNCHANGED <<ragVars, engineVars, layerMode, eventBus, systemState,
                   isConnected, connecting>>

\* ToolsAdapter.handleToolRequest({toolId}), which executeTool delegates to:
\* the tool is looked up, its category is checked against the categories of
\* the layer's mode as it is now, and the tool is invoked at once.  invoke
\* either returns or throws (invocation); every failure is answered with
\* success false.
HandleToolRequest(toolId, invocation) ==
    LET found == HasTool(registeredTools, toolId)
        invoked == found /\ ToolAllowed(GetTool(registeredTools, toolId), layerMode)
    IN
    /\ out' = [Obs("handleToolRequest", NoId, "returns", <<>>)
                 EXCEPT !.toolId = toolId,
                        !.mode = layerMode,
                        !.toolInvoked = invoked,
                        !.answer = IF invoked /\ invocation = "returns"
                                   THEN "success" ELSE "failure"]
    /\ UNCHANGED <<ragVars, engineVars, layerVars>>

\* ToolsAdapter.getTools({category, permissions})
GetTools(category, permissions) ==
    LET r == getTools(registeredTools, layerMode, category, permissions) IN
    /\ out' = [Obs("getTools", NoId, "returns", <<>>)
                 EXCEPT !.mode = layerMode,
                        !.answer = IF r.success THEN "success" ELSE "failure",
                        !.tools = r.data]
    /\ UNCHANGED <<ragVars, engineVars, layerVars>>

\* ToolsAdapter.handleModeChange(mode): the tools allowed in mode are stored
\* in the system state by updateSystemState, which emits 'state-change' to
\* the handlers of the bus.
ToolsHandleModeChange(mode, behaviour, late) ==
    LET d == Delivery(eventBus, "state-change", behaviour, late) IN
    /\ behaviour[late] # "subscribes"
    /\ Len(Subscribers(d.bus, "state-change")) <= MaxHandlers
    /\ systemState' = [defined |-> TRUE,
                       availableTools |-> AvailableTools(registeredTools, mode)]
    /\ eventBus' = d.bus
    /\ out' = [Obs("tools-mode-change", NoId, "returns",
                   <<[Event("state-change", NoId, Absent, Absent, Absent)
                        EXCEPT !.mode = mode]>>)
                 EXCEPT !.mode = mode,
                        !.channel = "state-change",
                        !.registered = Subscribers(eventBus, "state-change"),
                        !.invoked = d.invoked,
                        !.threw = d.threw]
    /\ UNCHANGED <<ragVars, engineVars, layerMode, toolsVars>>

\* The tools adapter under mode changes: connect, disconnect, registerTool,
\* tool requests, getTools, the adapter's mode-change hook, called as the
\* layer calls it, with the layer's mode, and setOperationalMode.
NextTools ==
    \/ ToolsConnect
    \/ ToolsConnectResume
    \/ ToolsDisconnect
    \/ \E tool \in CustomTools, complete \in BOOLEAN : RegisterTool(tool, complete)
    \/ \E toolId \in ToolIds, i \in {"returns", "throws"} : HandleToolRequest(toolId, i)
    \/ \E category \in {"", "utility"}, permissions \in {{}, {"write"}} :
          GetTools(category, permissions)
    \/ ToolsHandleModeChange(layerMode, [h \in Handlers |-> "returns"], "h1")
    \/ \E mode \in LayerModes :
          SetOperationalMode(mode, [h \in Handlers |-> "returns"], "h1")

SpecTools == InitTools /\ [][NextTools]_vars

\* The integration layer's mode switch with subscribers on the bus: on,
\* setOperationalMode and the engine adapter's hook called on its own.
NextLayer ==
    \/ \E h \in Handlers : On("mode-change", h)
    \/ \E mode \in LayerModes, b \in [Handlers -> Behaviours], late \in Handlers :
          SetOperationalMode(mode, b, late)
    \/ \E mode \in OperationalModes : HandleModeChange(mode)

SpecLayer == Init /\ [][NextLayer]_vars

NextBus ==
    \/ \E c \in Channels, h \in Handlers : On(c, h)
    \/ \E c \in Channels, b \in [Handlers -> Behaviours], late \in Handlers :
          Emit(c, b, late)

SpecBus == Init /\ [][NextBus]_vars

\* The request ids SpecAdmission can issue.
IssuableIds == {RequestId(c, t) : c \in 1..MaxAdmitted, t \in 0..MaxTime}

\* Admission with the event loop's guarantee: a timer that was set fires.  The
\* engine is under no obligation: it may leave a promise pending for ever.
FairTimers == \A id \in IssuableIds : WF_vars(EvictTimerFires(id))

SpecLive == Init /\ [][NextAdmission]_vars /\ FairTimers

\* hasAccess(userMode, requiredLevel), called on its own.
HasAccess(userMode, requiredLevel) ==
    /\ out' = [Obs("hasAccess", NoId, "returns", <<>>)
                 EXCEPT !.mode = userMode,
                        !.level = getModeLevel(userMode),
                        !.requiredLevel = requiredLevel,
                        !.granted = hasAccess(userMode, requiredLevel)]
    /\ UNCHANGED <<ragVars, engineVars, layerVars>>

\* The details of the AuthorizationError of a refusal: currentMode,
\* currentLevel (getModeLevel of the caller's mode) and requiredLevel.
DenialModeOnly(userMode, requiredLevel) ==
    [NoDetail EXCEPT !.currentMode = userMode]
Denial(userMode, requiredLevel) ==
    [currentMode |-> userMode, currentLevel |-> getModeLevel(userMode),
     requiredLevel |-> requiredLevel]

\* protectFunction(func, requiredLevel)(userMode): without access an
\* AuthorizationError is thrown whose details are the caller's mode, its
\* level and the required level; with access func is called, and what func
\* does (returns or throws) is what the call does.
ProtectedCall(userMode, requiredLevel, func) ==
    /\ out' = IF ~hasAccess(userMode, requiredLevel)
              THEN [Obs("protectFunction", NoId, "throws", <<>>)
                      EXCEPT !.mode = userMode,
                             !.requiredLevel = requiredLevel,
                             !.answer = "AuthorizationError",
                             !.detail = Denial(userMode, requiredLevel)]
              ELSE [Obs("protectFunction", NoId, func, <<>>)
                      EXCEPT !.mode = userMode,
                             !.requiredLevel = requiredLevel,
                             !.executed = TRUE]
    /\ UNCHANGED <<ragVars, engineVars, layerVars>>

\* requireMode(requiredLevel)(req, res, next): userMode is req.user?.mode or
\* the empty string.  Without access next is called with an
\* AuthorizationError of the same details, which keeps the route from
\* running; with access next() runs the route.
RequireMode(userMode, requiredLevel) ==
    /\ out' = IF ~hasAccess(userMode, requiredLevel)
              THEN [Obs("requireMode", NoId, "returns", <<>>)
                      EXCEPT !.mode = userMode,
                             !.requiredLevel = requiredLevel,
                             !.answer = "AuthorizationError",
                             !.detail = Denial(userMode, requiredLevel)]
              ELSE [Obs("requireMode", NoId, "returns", <<>>)
                      EXCEPT !.mode = userMode,
                             !.requiredLevel = requiredLevel,
                             !.executed = TRUE]
    /\ UNCHANGED <<ragVars, engineVars, layerVars>>

\* getNextMode(mode): null for a mode of level 0 and for the mode of
\* the highest level.  For any other mode the loop
\* `for (const [mode, config] of Object.entries(config.modes))` is entered:
\* it declares a config of its own, so config.modes in its head reads that
\* binding before it is initialized, which throws a ReferenceError.
GetNextMode(mode) ==
    LET currentLevel == getModeLevel(mode) IN
    /\ out' = IF currentLevel = 0 \/ currentLevel = MODE_LEVELS_ENTITY
              THEN [Obs("getNextMode", NoId, "returns", <<>>)
                      EXCEPT !.mode = mode, !.next = "null"]
              ELSE [Obs("getNextMode", NoId, "throws", <<>>)
                      EXCEPT !.mode = mode,
                             !.answer = "ReferenceError"]
    /\ UNCHANGED <<ragVars, engineVars, layerVars>>

\* The mode permissions, called with every mode and required level.
NextPermissions ==
    \/ \E m \in UserModes, l \in RequiredLevels : HasAccess(m, l)
    \/ \E m \in UserModes, l \in RequiredLevels, f \in {"returns", "throws"} :
          ProtectedCall(m, l, f)
    \/ \E m \in UserModes, l \in RequiredLevels : RequireMode(m, l)
    \/ \E m \in UserModes : GetNextMode(m)

SpecPermissions == Init /\ [][NextPermissions]_vars

\* context && context.length > 10000
ReachesThreshold(contextLength) == contextLength >= ContextThreshold
ExceedsThreshold(contextLength) == contextLength > ContextThreshold

\* determineEngineTier(request): reading a property of a request that is
\* undefined throws a TypeError; a tier override that is set is returned as
\* it is.
determineEngineTier(request) ==
    IF ~request.present THEN [ret |-> "throws", tier |-> Absent]
    ELSE IF request.tier # Absent THEN [ret |-> "returns", tier |-> request.tier]
    ELSE IF \/ request.complexity = "high"
            \/ /\ request.contextLength # NoCount
               /\ request.contextLength # 0
               /\ ExceedsThreshold(request.contextLength)
         THEN [ret |-> "returns", tier |-> "tier3"]
    ELSE IF request.complexity = "medium" \/ request.urgency = "high"
         THEN [ret |-> "returns", tier |-> "tier2"]
    ELSE [ret |-> "returns", tier |-> "tier1"]

\* determineEngineTier called with a request.
DetermineEngineTier(request) ==
    /\ out' = [Obs("determineEngineTier", NoId, determineEngineTier(request).ret, <<>>)
                 EXCEPT !.request = request,
                        !.tier = determineEngineTier(request).tier]
    /\ UNCHANGED <<ragVars, engineVars, layerVars>>

\* The tier selection over every request.
NextTier == \E request \in Requests : DetermineEngineTier(request)

SpecTier == Init /\ [][NextTier]_vars

\* RAGSystemAdapter.initialize(): subscribes handleIndexUpdate to the RAG
\* system's 'index-updated' event.
RagInitialize ==
    /\ ragInitialized' = TRUE
    /\ out' = Obs("rag-initialize", NoId, "returns", <<>>)
    /\ UNCHANGED <<engineVars, layerVars, ragIndex, queryCache, queries, updates,
                   indexCompleted>>

\* A handleQuery call suspended at its await: its cache key, its useCache
\* option and the index version at the call.
QueryCall(key, useCache) == [key |-> key, useCache |-> useCache, since |-> ragIndex]

\* this.queryCache.has(cacheKey) && options.useCache !== false
CacheHit(key, useCache) == key \in DOMAIN queryCache /\ useCache

\* this.queryCache.set(cacheKey, {success: true, data: result})
CacheSet(cache, key, version) ==
    [k \in DOMAIN cache \cup {key} |-> IF k = key THEN version ELSE cache[k]]

\* handleQuery(sourceId, query, options) up to its await: a cached result is
\* returned at once; otherwise the RAG system is asked and the call is
\* suspended.
HandleQuery(key, useCache) ==
    /\ IF CacheHit(key, useCache)
       THEN /\ out' = [Obs("query", NoId, "returns", <<>>)
                         EXCEPT !.key = key, !.answer = "success",
                                !.fromCache = TRUE,
                                !.resultVersion = queryCache[key]]
            /\ UNCHANGED queries
       ELSE /\ BagCardinality(queries) < MaxQueries
            /\ queries' = queries (+) SetToBag({QueryCall(key, useCache)})
            /\ out' = [Obs("query", NoId, Absent, <<>>) EXCEPT !.key = key]
    /\ UNCHANGED <<engineVars, layerVars, ragInitialized, ragIndex, queryCache,
                   updates, indexCompleted>>

\* The RAG system answers the suspended query q: handleQuery from its await
\* on.  A result was computed from the index as it was at some moment between
\* the call and the answer (version); it is cached unless useCache is false.
\* A rejection is answered with success false.
QueryReturn(q, answer, version) ==
    /\ BagIn(q, queries)
    /\ queries' = queries (-) SetToBag({q})
    /\ version \in q.since..ragIndex
    /\ IF answer = "result"
       THEN /\ queryCache' = IF q.useCache THEN CacheSet(queryCache, q.key, version)
                             ELSE queryCache
            /\ out' = [Obs("query-return", NoId, "returns", <<>>)
                         EXCEPT !.key = q.key, !.answer = "success",
                                !.resultVersion = version]
       ELSE /\ version = q.since
            /\ UNCHANGED queryCache
            /\ out' = [Obs("query-return", NoId, "returns", <<>>)
                         EXCEPT !.key = q.key, !.answer = "failure"]
    /\ UNCHANGED <<engineVars, layerVars, ragInitialized, ragIndex, updates,
                   indexCompleted>>

\* handleUpdateIndex(sourceId, updateData, options) up to its await on
\* addDocuments, removeDocuments or rebuildIndex.
HandleUpdateIndex ==
    /\ updates < MaxUpdates
    /\ ragIndex + updates < MaxIndexVersion
    /\ updates' = updates + 1
    /\ out' = Obs("update-index", NoId, Absent, <<>>)
    /\ UNCHANGED <<engineVars, layerVars, ragInitialized, ragIndex, queryCache,
                   queries, indexCompleted>>

\* The RAG system answers a suspended index update: it has changed the index
\* and handleUpdateIndex clears the query cache, or it rejects and the cache
\* is left as it is.
UpdateReturn(answer) ==
    /\ updates > 0
    /\ updates' = updates - 1
    /\ IF answer = "result"
       THEN /\ ragIndex' = ragIndex + 1
            /\ queryCache' = <<>>
            /\ indexCompleted' = ragIndex'
            /\ out' = [Obs("update-return", NoId, "returns", <<>>)
                         EXCEPT !.answer = "success"]
       ELSE /\ UNCHANGED <<ragIndex, queryCache, indexCompleted>>
            /\ out' = [Obs("update-return", NoId, "returns", <<>>)
                         EXCEPT !.answer = "failure"]
    /\ UNCHANGED <<engineVars, layerVars, ragInitialized, queries>>

\* The RAG system changed its index and emits 'index-updated':
\* handleIndexUpdate clears the query cache and calls options.onIndexUpdated,
\* which is absent or returns, or throws (callback).
HandleIndexUpdate(callback) ==
    /\ ragInitialized
    /\ ragIndex + updates < MaxIndexVersion
    /\ ragIndex' = ragIndex + 1
    /\ queryCache' = <<>>
    /\ indexCompleted' = ragIndex'
    /\ out' = Obs("index-updated", NoId, callback, <<>>)
    /\ UNCHANGED <<engineVars, layerVars, ragInitialized, queries, updates>>

\* The RAG adapter: queries and index updates in any interleaving.
NextRag ==
    \/ RagInitialize
    \/ \E key \in QueryKeys, useCache \in BOOLEAN : HandleQuery(key, useCache)
    \/ \E q \in BagToSet(queries), a \in {"result", "throws"},
          v \in 0..MaxIndexVersion : QueryReturn(q, a, v)
    \/ HandleUpdateIndex
    \/ \E a \in {"result", "throws"} : UpdateReturn(a)
    \/ \E cb \in {"returns", "throws"} : HandleIndexUpdate(cb)

SpecRag == Init /\ [][NextRag]_vars

\* ------------------------------------------------------------------ claims

\* The record fields a status query exposes.
Exposed(rec) == <<rec.status, rec.result, rec.error, rec.completionTime>>

\* The last handler run settled request id: the then-callback, the
\* catch-callback or handleRequestComplete ran for it.
Settles(o, id) ==
    /\ o.op \in {"resolve", "catch", "request-complete"}
    /\ o.requestId = id

\* C1: a record leaves 'processing' at most once, and once its status is
\* 'completed', 'error' or 'cancelled' the status never changes again.
C1_TerminalAbsorbing ==
    [][\A id \in DOMAIN requestInfo :
          requestInfo[id].status \in Terminal
             => requestInfo'[id].status = requestInfo[id].status]_vars

\* C2: a result that arrives for a cancelled record (the promise resolves or
\* the engine emits 'request-complete') is ignored: the status stays
\* 'cancelled', no result is stored and no 'engine-request-complete' is emitted.
C2_LateResultIgnored ==
    [][\A id \in activeRequests :
          (/\ requestInfo[id].status = "cancelled"
           /\ out'.op \in {"resolve", "request-complete"}
           /\ out'.requestId = id)
             => /\ requestInfo'[id].status = "cancelled"
                /\ requestInfo'[id].result = requestInfo[id].result
                /\ \A i \in DOMAIN out'.emitted :
                      out'.emitted[i].channel # "engine-request-complete"]_vars

\* C3: a completion or failure delivered for a record that is already terminal
\* leaves its status, result, error and completionTime as they were.
C3_DuplicateSettlementNoOp ==
    [][\A id \in activeRequests :
          (requestInfo[id].status \in Terminal /\ Settles(out', id))
             => Exposed(requestInfo'[id]) = Exposed(requestInfo[id])]_vars

\* C4: of the cancel calls made while a record was 'processing', one performs
\* the transition to 'cancelled'; a call that finds the record already
\* cancelled by another call is not reported as a successful cancellation.
C4_OneCancelWins ==
    [][(/\ out'.op = "cancel-return"
        /\ out'.wasProcessing
        /\ requestInfo[out'.requestId].status = "cancelled")
          => out'.ret # "success"]_vars

\* C5: an authorized cancel call made on a record that was already terminal
\* does not return success and leaves the record's status unchanged.
C5_TerminalCancelConflicts ==
    [][(out'.op = "cancel-return" /\ ~out'.wasProcessing)
          => /\ out'.ret # "success"
             /\ requestInfo'[out'.requestId].status
                   = requestInfo[out'.requestId].status]_vars

\* C6: a cancel call for a tracked record by a requester that is not the
\* record's source, without admin override, returns the not-authorized error,
\* changes no record, does not call the engine's cancel, suspends nothing and
\* emits no event.
C6_UnauthorizedCancel ==
    [][(/\ out'.op = "cancel"
        /\ out'.requestId \in activeRequests
        /\ requestInfo[out'.requestId].sourceId # out'.sourceId
        /\ ~out'.adminOverride)
          => /\ out'.ret = "unauthorized"
             /\ requestInfo' = requestInfo
             /\ activeRequests' = activeRequests
             /\ cancels' = cancels
             /\ ~out'.engineCancel
             /\ out'.emitted = <<>>]_vars

\* C6 witness: an unauthorized cancel was refused on a record in 'processing'.
C6_Witness ==
    /\ out.op = "cancel"
    /\ out.ret = "unauthorized"
    /\ Has(out.requestId)
    /\ requestInfo[out.requestId].status = "processing"
    /\ requestInfo[out.requestId].sourceId # out.sourceId

\* C7: a cancel call for a request id that is not in the tracker (never
\* issued, or evicted) returns the not-found error, does not call the engine's
\* cancel, changes no record and emits no event.
C7_UnknownCancel ==
    [][(out'.op = "cancel" /\ out'.requestId \notin activeRequests)
          => /\ out'.ret = "notfound"
             /\ requestInfo' = requestInfo
             /\ activeRequests' = activeRequests
             /\ cancels' = cancels
             /\ ~out'.engineCancel
             /\ out'.emitted = <<>>]_vars

\* C7 witness: a cancel for an id that was issued and has been evicted was
\* answered not-found.
C7_Witness ==
    /\ out.op = "cancel"
    /\ out.ret = "notfound"
    /\ out.requestId \in DOMAIN requestInfo
    /\ ~Has(out.requestId)

\* C8: when the engine answers success to the cancel of a record that was
\* 'processing' when the call was made, the record becomes 'cancelled' and
\* exactly one event, 'engine-request-cancelled' with the request id and the
\* caller's source id, is emitted; and whenever 'engine-request-cancelled' is
\* emitted the record of its request id is in status 'cancelled'.
C8_CancelledOnEngineSuccess ==
    [][/\ (/\ out'.op = "cancel-return"
           /\ out'.answer = "success"
           /\ out'.wasProcessing)
             => /\ requestInfo'[out'.requestId].status = "cancelled"
                /\ out'.ret = "success"
                /\ out'.emitted =
                      <<Event("engine-request-cancelled", out'.requestId,
                              out'.sourceId, Absent, Absent)>>
       /\ \A i \in DOMAIN out'.emitted :
             out'.emitted[i].channel = "engine-request-cancelled"
                => requestInfo'[out'.emitted[i].requestId].status = "cancelled"]_vars

\* C8 witness: a cancel of a processing record returned success and its
\* record, still tracked, is 'cancelled'.
C8_Witness ==
    /\ out.op = "cancel-return"
    /\ out.answer = "success"
    /\ out.wasProcessing
    /\ Has(out.requestId)
    /\ requestInfo[out.requestId].status = "cancelled"
    /\ Len(out.emitted) = 1

\* C9: when the engine answers success=false to the cancel of a record that
\* was 'processing' when the call was made, the record is marked 'cancelled'
\* all the same.
C9_CancelledWithoutEngine ==
    [][(/\ out'.op = "cancel-return"
        /\ out'.answer = "failure"
        /\ out'.wasProcessing)
          => requestInfo'[out'.requestId].status = "cancelled"]_vars

\* C10: every process request gets a request id different from every id
\* issued before it, evicted ones included; an admitted request is at once in
\* the tracker with the caller's source id and status 'processing', and every
\* admitted request whose promise has not settled is returned by a status
\* query as 'processing' under its own id.
C10_DistinctIds ==
    [][/\ out'.op = "process"
          => /\ out'.requestId \notin DOMAIN requestInfo
             /\ out'.ret = "success"
                   => /\ out'.requestId \in activeRequests'
                      /\ requestInfo'[out'.requestId].sourceId = out'.sourceId
                      /\ requestInfo'[out'.requestId].status = "processing"
       /\ \A id \in DOMAIN promise' :
             promise'[id] = "pending"
                => /\ id \in activeRequests'
                   /\ requestInfo'[id].status = "processing"
       /\ (out'.op = "status" /\ out'.requestId \in activeRequests')
             => /\ out'.ret = "success"
                /\ out'.snapshot.requestId = out'.requestId
                /\ out'.snapshot.status = requestInfo'[out'.requestId].status]_vars

\* C10 witness: two requests admitted from distinct sources are both tracked
\* as 'processing' and a status query has just returned one of them.
C10_Witness ==
    /\ \E a, b \in activeRequests :
          /\ a # b
          /\ requestInfo[a].sourceId # requestInfo[b].sourceId
          /\ requestInfo[a].status = "processing"
          /\ requestInfo[b].status = "processing"
          /\ out.op = "status" /\ out.requestId = b /\ out.ret = "success"
          /\ out.snapshot.status = "processing"

\* C11: a process request that fails at admission (it returns success=false)
\* leaves no record of its request id in the tracker, and the count of
\* 'processing' records is what it was before the call.
C11_FailedAdmissionLeavesNoRecord ==
    [][(out'.op = "process" /\ out'.ret = "error")
          => /\ out'.requestId \notin activeRequests'
             /\ CountProcessing(activeRequests', requestInfo')
                   = CountProcessing(activeRequests, requestInfo)]_vars

\* C12: a process request is admitted (it returns success, its record is in
\* the tracker and the engine was invoked) only in an operational mode that the
\* Permission Gate allows.  The gate is hasAccess with the lowest level of the
\* mode table: it denies the modes of level 0, the empty mode and the names
\* the table lacks, which are denied every capability.
C12_AdmittedOnlyIfGateAllows ==
    (/\ out.op = "process"
     /\ out.ret = "success"
     /\ out.requestId \in activeRequests
     /\ promise[out.requestId] = "pending")
       => hasAccess(currentMode, MODE_LEVELS_ARCHIVIST)

\* C13: a process request that returns success returns while the engine's
\* promise is still pending: at that moment its record is in the tracker with
\* status 'processing'.  Every record enters the tracker in status
\* 'processing', by a process request and by nothing else, and a record that
\* has a terminal status never shows 'processing' again: whoever observes a
\* record observes 'processing' before any terminal status.
C13_AckBeforeSettlement ==
    [][/\ (out'.op = "process" /\ out'.ret = "success")
             => /\ out'.requestId \in activeRequests'
                /\ requestInfo'[out'.requestId].status = "processing"
                /\ promise'[out'.requestId] = "pending"
       /\ \A id \in DOMAIN requestInfo' \ DOMAIN requestInfo :
             /\ out'.op = "process"
             /\ out'.requestId = id
             /\ requestInfo'[id].status = "processing"
       /\ activeRequests' \subseteq activeRequests \cup
                                     (DOMAIN requestInfo' \ DOMAIN requestInfo)
       /\ \A id \in DOMAIN requestInfo :
             requestInfo[id].status \in Terminal
                => requestInfo'[id].status # "processing"]_vars

\* C13 witness: a status query returns 'processing' for an acknowledged
\* request whose promise has not settled, while another request, admitted
\* the same way, has reached 'completed'.
C13_Witness ==
    /\ out.op = "status"
    /\ out.ret = "success"
    /\ out.snapshot.status = "processing"
    /\ promise[out.requestId] = "pending"
    /\ \E id \in activeRequests : requestInfo[id].status = "completed"

\* The terminal status that corresponds to a lifecycle event.
EventStatus(channel) ==
    CASE channel = "engine-request-complete" -> "completed"
      [] channel = "engine-request-error" -> "error"
      [] channel = "engine-request-cancelled" -> "cancelled"
      [] OTHER -> Absent

\* C14: when 'engine-request-complete', 'engine-request-error' or
\* 'engine-request-cancelled' is emitted for a request id, the tracker holds
\* the record of that id and its status is 'completed', 'error' or 'cancelled'
\* respectively.  (The handlers of a subscriber run inside emit, and no
\* callback touches the record after its emit.)
C14_StatusSetBeforeEvent ==
    \A i \in DOMAIN out.emitted :
       LET e == out.emitted[i] IN
       (EventStatus(e.channel) # Absent /\ e.requestId # NoId)
          => /\ e.requestId \in activeRequests
             /\ requestInfo[e.requestId].status = EventStatus(e.channel)

\* C15: every 'engine-request-complete' and 'engine-request-error' event
\* carries the id of a request that was issued, the source id that request
\* came from, and the result (complete) or the error (error).
C15_EventPayload ==
    \A i \in DOMAIN out.emitted :
       LET e == out.emitted[i] IN
       e.channel \in {"engine-request-complete", "engine-request-error"}
          => /\ e.requestId \in DOMAIN requestInfo
             /\ e.sourceId = requestInfo[e.requestId].sourceId
             /\ e.channel = "engine-request-complete" => e.result # Absent
             /\ e.channel = "engine-request-error" => e.error # Absent

\* C16: every admitted request eventually leaves 'processing', also when the
\* engine never settles its promise (the timeout of the mode then sets the
\* record to 'error').
C16_EventuallyLeavesProcessing ==
    \A id \in IssuableIds :
       (/\ id \in DOMAIN promise
        /\ promise[id] = "pending"
        /\ requestInfo[id].status = "processing")
          ~> (id \in DOMAIN requestInfo /\ requestInfo[id].status # "processing")

\* C17: every tracked record that has reached 'completed', 'error' or
\* 'cancelled' is eventually evicted from the tracker, timers being fair.
C17_TerminalEventuallyEvicted ==
    \A id \in IssuableIds :
       (id \in activeRequests /\ requestInfo[id].status \in Terminal)
          ~> (id \notin activeRequests)

\* C18: a tracked record leaves the tracker only when its retention timer
\* fires, and that timer is set only by the then-callback that completes the
\* record; until then a status query for its id returns its snapshot.  When
\* the timer fires the record is removed, it never comes back, and every
\* status query for its id from then on returns not-found.
C18_QueryableUntilEvicted ==
    [][/\ \A id \in activeRequests :
             id \notin activeRequests' => (out'.op = "evict" /\ out'.requestId = id)
       /\ \A id \in DOMAIN evictTimer :
             (evictTimer'[id] /\ ~evictTimer[id])
                => /\ out'.op = "resolve"
                   /\ out'.requestId = id
                   /\ id \in activeRequests' => requestInfo'[id].status = "completed"
       /\ out'.op = "evict" => out'.requestId \notin activeRequests'
       /\ \A id \in DOMAIN requestInfo \ activeRequests : id \notin activeRequests'
       /\ out'.op = "status"
             => IF out'.requestId \in activeRequests'
                THEN /\ out'.ret = "success"
                     /\ out'.snapshot.requestId = out'.requestId
                     /\ out'.snapshot.status = requestInfo'[out'.requestId].status
                ELSE /\ out'.ret = "notfound"
                     /\ out'.snapshot = NoSnapshot]_vars

\* C18 witness: a status query for a request that was completed and then
\* evicted has returned not-found.
C18_Witness ==
    /\ out.op = "status"
    /\ out.ret = "notfound"
    /\ out.requestId \in DOMAIN requestInfo
    /\ out.requestId \notin activeRequests
    /\ requestInfo[out.requestId].status = "completed"
    /\ ~evictTimer[out.requestId]

\* C19: a status query without a request id that succeeds reports as
\* activeRequests the number of tracked records whose status is 'processing'
\* when the query resumes from the engine's answer; tracked records that are
\* 'completed', 'error' or 'cancelled' are not counted.
C19_AggregateCountsProcessing ==
    (out.op = "status-all-return" /\ out.ret = "success")
       => /\ out.count
                = Cardinality({id \in activeRequests :
                                  requestInfo[id].status = "processing"})
          /\ out.count
                + Cardinality({id \in activeRequests :
                                  requestInfo[id].status \in Terminal})
                = Cardinality(activeRequests)

\* C19 witness: an aggregate query has reported one active request while the
\* tracker holds a 'processing' record and a record that is terminal.
C19_Witness ==
    /\ out.op = "status-all-return"
    /\ out.ret = "success"
    /\ out.count = 1
    /\ \E a, b \in activeRequests :
          /\ requestInfo[a].status = "processing"
          /\ requestInfo[b].status \in Terminal

\* C20: in every snapshot a status query returns, a result is present only
\* with status 'completed', an error detail only with status 'error', and the
\* completion timestamp is absent with status 'processing'.
C20_SnapshotFields ==
    (out.op = "status" /\ out.ret = "success")
       => /\ out.snapshot.result # Absent => out.snapshot.status = "completed"
          /\ out.snapshot.error # Absent => out.snapshot.status = "error"
          /\ out.snapshot.status = "processing"
                => out.snapshot.completionTime = NoTime

Count(seq, handler) == Cardinality({i \in DOMAIN seq : seq[i] = handler})

C23_NoSubscribersNoOp ==
    [][(out'.op = "emit" /\ out'.channel \notin DOMAIN eventBus)
          => /\ out'.invoked = <<>>
             /\ out'.threw = {}
             /\ out'.ret = "returns"
             /\ eventBus' = eventBus]_vars

\* C23 witness: an emission on a channel without subscribers has returned
\* while another channel has two.
C23_Witness ==
    /\ out.op = "emit"
    /\ out.channel \notin DOMAIN eventBus
    /\ out.invoked = <<>>
    /\ \E c \in DOMAIN eventBus : Len(eventBus[c]) = 2

\* C24: an emission is delivered to the handlers that were registered on the
\* channel when emit was called, at most once for each registration, and not
\* to a handler subscribed after the emission began, were it by a handler of
\* that same emission.
C24_OnlyRegisteredAtCall ==
    out.op = "emit"
       => \A h \in Handlers : Count(out.invoked, h) <= Count(out.registered, h)

\* C25: for every known mode, setOperationalMode(mode) returns with the
\* layer's mode set to it, one 'mode-change' event carrying it emitted, and
\* the mode-change hook of the control center, the engines, the RAG system,
\* the tools and the AI council called, so that the engine adapter's mode
\* equals the layer's.
C25_ModeReachesEverySubsystem ==
    (out.op = "setOperationalMode" /\ out.mode \in OperationalModes) =>
        /\ out.ret = "returns"
        /\ layerMode = out.mode
        /\ Cardinality({i \in DOMAIN out.emitted :
                          /\ out.emitted[i].channel = "mode-change"
                          /\ out.emitted[i].mode = out.mode}) = 1
        /\ out.hooks = Subsystems
        /\ currentMode = layerMode

\* C26: setOperationalMode with a value outside the known modes throws and
\* changes nothing: the layer's mode, the system state, the engine adapter's
\* mode and the bus are as before, no event is emitted, no handler and no
\* subsystem hook is called.
C26_UnknownModeNoEffect ==
    [][(out'.op = "setOperationalMode" /\ out'.mode \notin OperationalModes) =>
          /\ out'.ret = "throws"
          /\ layerMode' = layerMode
          /\ systemState' = systemState
          /\ currentMode' = currentMode
          /\ eventBus' = eventBus
          /\ out'.emitted = <<>>
          /\ out'.invoked = <<>>
          /\ out'.hooks = <<>>]_vars

\* An unknown mode was refused while handlers were subscribed to
\* 'mode-change' and the layer was in a mode set by an earlier call.
C26_Witness ==
    /\ out.op = "setOperationalMode"
    /\ out.mode \notin OperationalModes
    /\ out.ret = "throws"
    /\ layerMode # "STANDARD"
    /\ Subscribers(eventBus, "mode-change") # <<>>

\* C27: a mode change does not revoke requests in flight: setOperationalMode
\* and the engine adapter's handleModeChange leave every tracker record, the
\* set of tracked requests, the pending promises, the eviction timers and the
\* cancellations as they were.
C27_ModeChangeKeepsRequests ==
    [][out'.op \in {"setOperationalMode", "mode-change"} =>
          /\ requestInfo' = requestInfo
          /\ activeRequests' = activeRequests
          /\ promise' = promise
          /\ evictTimer' = evictTimer
          /\ cancels' = cancels]_vars

\* The engine adapter's mode was changed while a request was 'processing'
\* with its promise pending.
C27_Witness ==
    /\ out.op = "mode-change"
    /\ currentMode # "STANDARD"
    /\ layerMode # "STANDARD"
    /\ \E id \in activeRequests :
          /\ requestInfo[id].status = "processing"
          /\ id \in DOMAIN promise

\* C28: over any interleaving of mode changes and tool requests, a tool is
\* invoked only if it is registered and its category is among the categories
\* allowed in the mode the layer is in at that call, and a request that does
\* not invoke the tool is answered with success false.
C28_InvokedOnlyIfAllowedNow ==
    out.op = "handleToolRequest" =>
        /\ out.toolInvoked =>
              /\ HasTool(registeredTools, out.toolId)
              /\ layerMode \in DOMAIN modePermissions
              /\ GetTool(registeredTools, out.toolId).category
                    \in modePermissions[layerMode]
        /\ ~out.toolInvoked => out.answer = "failure"

\* A request for a registered tool was denied in the layer's present mode
\* although the list published at an earlier mode change still names the tool.
C28_Witness ==
    /\ out.op = "handleToolRequest"
    /\ ~out.toolInvoked
    /\ out.answer = "failure"
    /\ HasTool(registeredTools, out.toolId)
    /\ \E i \in DOMAIN systemState.availableTools :
          systemState.availableTools[i] = out.toolId

\* C29: the tool categories allowed in any mode are allowed in the highest
\* mode, EXPERIMENTAL ("all tools including experimental"): whatever mode
\* the layer is in, its allowed categories are among those of EXPERIMENTAL.
C29_AllowedWithinHighestMode ==
    AllowedCategories(layerMode) \subseteq AllowedCategories("EXPERIMENTAL")

\* C30: a mode the tables do not know, or the empty mode, fails closed.  For
\* the mode table: its level is 0 and hasAccess is false for every required
\* level from 1 up.  For the tools adapter: its set of allowed categories is
\* empty, so while the layer is in that mode every tool request is answered
\* with success false without invoking the tool and getTools lists no tool.
C30_UnknownModeFailsClosed ==
    /\ (layerMode = "" \/ toLowerCase(layerMode) \notin DOMAIN configModes) =>
          /\ getModeLevel(layerMode) = 0
          /\ \A requiredLevel \in 1..4 : ~hasAccess(layerMode, requiredLevel)
    /\ layerMode \notin DOMAIN modePermissions =>
          /\ AllowedCategories(layerMode) = {}
          /\ out.op = "handleToolRequest" =>
                ~out.toolInvoked /\ out.answer = "failure"
          /\ out.op = "getTools" => out.tools = <<>>

\* In a mode the tools adapter does not know, a request for a registered
\* tool of a category every known mode allows was denied.
C30_Witness ==
    /\ layerMode \notin DOMAIN modePermissions
    /\ getModeLevel(layerMode) = 0
    /\ out.op = "handleToolRequest"
    /\ HasTool(registeredTools, out.toolId)
    /\ \A m \in DOMAIN modePermissions :
          GetTool(registeredTools, out.toolId).category \in modePermissions[m]
    /\ ~out.toolInvoked

\* C31: the levels of the four modes are distinct and increase from archivist
\* over orchestrator and godfather to entity; hasAccess is true exactly when
\* the mode's level is at least the required level, so that access granted to
\* a mode is granted to every mode of a higher level.
C31_AccessByLevel ==
    /\ configModes.archivist.level < configModes.orchestrator.level
    /\ configModes.orchestrator.level < configModes.godfather.level
    /\ configModes.godfather.level < configModes.entity.level
    /\ out.op = "hasAccess" =>
          /\ out.level = getModeLevel(out.mode)
          /\ out.granted <=> out.level >= out.requiredLevel
          /\ out.granted =>
                \A m \in UserModes :
                    getModeLevel(m) > out.level =>
                        getModeLevel(m) >= out.requiredLevel

\* A mode was granted access at exactly its own level, and a mode of the
\* table was refused one level higher.
C31_Witness ==
    /\ out.op = "hasAccess"
    /\ out.mode = "godfather"
    /\ out.granted
    /\ out.level = out.requiredLevel
    /\ ~hasAccess("orchestrator", out.requiredLevel)

\* C32: a caller whose mode's level is below the required level does not get
\* the protected function or route executed: protectFunction throws, and
\* requireMode hands to next, an AuthorizationError whose details are the
\* caller's mode, its level and the required level.  A caller whose level is
\* at least the required level gets it executed.
C32_DeniedBelowRequiredLevel ==
    out.op \in {"protectFunction", "requireMode"} =>
        IF getModeLevel(out.mode) < out.requiredLevel
        THEN /\ ~out.executed
             /\ out.answer = "AuthorizationError"
             /\ out.op = "protectFunction" => out.ret = "throws"
             /\ out.detail.currentMode = out.mode
             /\ out.detail.currentLevel = getModeLevel(out.mode)
             /\ out.detail.requiredLevel = out.requiredLevel
        ELSE /\ out.executed
             /\ out.answer = Absent
             /\ out.detail = NoDetail

\* archivist, of level 1, was refused a function that requires level 3.
C32_Witness ==
    /\ out.op = "protectFunction"
    /\ out.mode = "archivist"
    /\ out.requiredLevel = 3
    /\ ~out.executed
    /\ out.detail = [currentMode |-> "archivist", currentLevel |-> 1,
                     requiredLevel |-> 3]

\* C40: getNextMode never fails; it returns the mode whose level is one above
\* the level of the mode given, and null for the highest mode and for a mode
\* that is unknown or empty.
C40_NextModeOneLevelUp ==
    out.op = "getNextMode" =>
        /\ out.ret = "returns"
        /\ IF getModeLevel(out.mode) \in {0, configModes.entity.level}
           THEN out.next = "null"
           ELSE /\ out.next \in DOMAIN configModes
                /\ configModes[out.next].level = getModeLevel(out.mode) + 1

\* C33: the tier of a request is decided in this order: its tier override if
\* it has one; else tier3 if its complexity is high or its context is longer
\* than 10,000, whatever its urgency; else tier2 if its complexity is medium
\* or its urgency high; else tier1.  A context of exactly 10,000 does not by
\* itself select tier3.
C33_TierDecisionOrder ==
    (out.op = "determineEngineTier" /\ out.request.present) =>
        LET r == out.request IN
        /\ out.ret = "returns"
        /\ out.tier =
              CASE r.tier # Absent -> r.tier
                [] r.tier = Absent /\ (r.complexity = "high" \/ r.contextLength > 10000)
                     -> "tier3"
                [] r.tier = Absent /\ r.complexity # "high" /\ r.contextLength <= 10000
                     /\ (r.complexity = "medium" \/ r.urgency = "high")
                     -> "tier2"
                [] OTHER -> "tier1"

\* A request of low complexity and low urgency whose context is exactly
\* 10,000 long got the baseline tier.
C33_Witness ==
    /\ out.op = "determineEngineTier"
    /\ out.request = Request(Absent, "low", "low", ContextThreshold)
    /\ out.tier = "tier1"

\* C34: tier selection is total: for every request, whatever its fields, it
\* returns without failing, and what it returns is one of tier1, tier2, tier3.
C34_TierSelectionTotal ==
    out.op = "determineEngineTier" =>
        /\ out.ret = "returns"
        /\ out.tier \in Tiers

\* C35: over the whole life of a request at most one terminal event
\* ('engine-request-complete', 'engine-request-error' or
\* 'engine-request-cancelled') is emitted for its id.
C35_OneTerminalEvent ==
    \A id \in DOMAIN terminalEvents : terminalEvents[id] <= 1

\* C36: the query cache never serves a result that predates an index update:
\* a query answered from the cache gets a result computed from the index as
\* it is since the last update that completed, not from an earlier one.
C36_CacheNotStale ==
    (out.op = "query" /\ out.fromCache) => out.resultVersion >= indexCompleted

\* C37: after any sequence of connect and disconnect calls of the tools
\* adapter, the 'tool-requested' channel holds at most one handler of the
\* adapter.
C37_OneToolRequestHandler ==
    Count(Subscribers(eventBus, "tool-requested"), "handleToolRequest") <= 1

\* C38: once a mode change has published it, the availableTools list of the
\* system state is the list of the registered tools whose category is allowed
\* in the layer's mode, also after registerTool, disconnect and further mode
\* changes.
C38_AvailableToolsCurrent ==
    systemState.defined =>
        systemState.availableTools = AvailableTools(registeredTools, layerMode)

\* C39: a tool id is registered at most once: registerTool with an id that is
\* already registered, or with a definition missing its id, name, category
\* or invoke function, answers success = false and leaves the registry as it
\* was, so the tool registered under the id before is still the one found
\* under it; an accepted definition is stored under an id that was free.
C39_RegisterToolRejectsDuplicate ==
    [][out'.op = "registerTool" =>
        LET tool == out'.definition.tool
            invalid == \/ tool.id = ""
                       \/ tool.category = ""
                       \/ ~out'.definition.complete
            duplicate == \E i \in DOMAIN registeredTools :
                             registeredTools[i].id = tool.id
        IN  /\ (invalid \/ duplicate) =>
                /\ out'.answer = "failure"
                /\ registeredTools' = registeredTools
            /\ ~(invalid \/ duplicate) =>
                /\ out'.answer = "success"
                /\ registeredTools' = Append(registeredTools, tool)
            /\ \A i, j \in DOMAIN registeredTools' :
                   registeredTools'[i].id = registeredTools'[j].id => i = j
    ]_vars

\* A complete definition under the id of a discovered tool, differing from
\* that tool, was rejected and the discovered tool is still registered.
C39_Witness ==
    /\ out.op = "registerTool"
    /\ out.answer = "failure"
    /\ out.definition.complete
    /\ out.definition.tool.id = "file-manager"
    /\ out.definition.tool.category = "diagnostics"
    /\ HasTool(registeredTools, "file-manager")
    /\ GetTool(registeredTools, "file-manager") = exampleTools[1]

====
